---------------------------- MODULE Spec2Model ----------------------------
(***************************************************************************)
(* The session logic of the stock price predictor front end: the App       *)
(* component's state, its handleStockSelect handler (an async function,    *)
(* one step per await), and its socket handlers.                           *)
(*                                                                         *)
(* Every call of handleStockSelect is one entry of `calls`; its position   *)
(* in that sequence is the selection's generation.  The code keeps no such *)
(* number: it is kept here, with the tags on responses and ticks, only to  *)
(* say which selection a piece of state came from.                         *)
(*                                                                         *)
(* The StockChart component is modelled beside it: its props, its state    *)
(* (time range, prediction toggle, selected model) and the chart data that *)
(* prepareChartData returns on each render.                                *)
(***************************************************************************)
EXTENDS Integers, Sequences, FiniteSets, Bags, TLC

\* ------------------------------------------------------------- bounds
\* Calls of handleStockSelect in one run.
MaxSelects == 2
\* Messages the live feed delivers in one run.
MaxTicks == 1
\* Events (selects, settled requests, feed messages, feed errors) in one run.
MaxEvents == 8
\* Messages the live feed delivers in the run of the buffer scenario.
MaxLiveTicks == 150
\* Entries of the historical series handed to the chart.
MaxHist == 252
\* Ticks of the live buffer handed to the chart.
MaxChartTicks == 2
\* Messages the live feed delivers in the run of the view scenario.
MaxViewTicks == 3
\* Calls of handleStockSelect in a run whose requests all settle.
MaxFairSelects == 2
\* Feed messages in one trading day: the timestamp of a tick is the number of
\* the message, counted from the start of the day of the last historical bar.
TicksPerDay == 1000

\* ---------------------------------------------------------- constants
\* The buffer keeps the last 100 data points.
BufferCap == 100
\* Days of forecast asked of each provider.
HorizonDays == 7
\* Trading days in the history asked of the server: period '1y', interval '1d'.
TradingDays == 252

\* The models of handleStockSelect, in the order of the array.
models == <<"arima", "prophet", "ml">>
Models == {models[i] : i \in 1..Len(models)}

\* The instruments the directory offers (StockSearch options).
Stocks == {[symbol |-> "AAPL", name |-> "Apple"],
           [symbol |-> "MSFT", name |-> "Microsoft"]}
Symbols == {s.symbol : s \in Stocks}

\* JavaScript's null, for the state that holds an object.
Null == [null |-> TRUE]
\* JavaScript's undefined: what `.data` gives on a response body without it.
Undefined == [undefined |-> TRUE]
\* JavaScript's null, for the error text.
NoError == "null"
ConnectMsg == "Failed to connect to the server. Please try again later."
NoPredMsg == "Failed to generate predictions. Please try a different stock or try again later."
FetchMsg == "Failed to fetch stock data. Please try again."

\* useState({}) : a map with no key.
EmptyMap == [m \in {} |-> Null]

VARIABLES
    selectedStock,  \* the stock of the last select, or Null
    stockData,      \* the historical series shown, Null or Undefined
    stockInfo,      \* the stock information shown, Null or Undefined
    predictions,    \* model id -> forecast
    loading,        \* the loading flag
    error,          \* the error text, or NoError
    realTimeData,   \* the live buffer
    calls,          \* the calls of handleStockSelect, oldest first
    tracked,        \* generations whose call emitted track_stock
    requests,       \* the requests sent so far (a bag)
    feedClock,      \* messages the live feed has delivered
    accepted,       \* ticks pushed to the buffer since the last select
    lastEvent,      \* the last event handled
    events,         \* events handled so far
    chartProps,     \* StockChart's props, or Null while it is not mounted
    chartState,     \* StockChart's state
    chartData,      \* what prepareChartData returned on the last render
    apiCall         \* the last call of the api module that was followed, or Null

vars == <<selectedStock, stockData, stockInfo, predictions, loading, error,
          realTimeData, calls, tracked, requests, feedClock, accepted, lastEvent,
          events, chartProps, chartState, chartData, apiCall>>

appVars == <<selectedStock, stockData, stockInfo, predictions, loading, error,
             realTimeData, calls, tracked, requests, feedClock, accepted,
             lastEvent, events, apiCall>>
chartVars == <<chartProps, chartState, chartData>>

\* The generation of the current selection: the number of select calls so far.
generation == Len(calls)

statusReadyWithSeries ==
    IF loading /\ stockData = Null THEN "Loading"
    ELSE IF error # NoError THEN "Error"
    ELSE IF selectedStock = Null THEN "Idle"
    ELSE "Ready"

\* What the page shows (the render gating): the spinner while loading, the
\* error banner while an error text is set, the welcome text before any select.
status ==
    IF loading THEN "Loading"
    ELSE IF error # NoError THEN "Error"
    ELSE IF selectedStock = Null THEN "Idle"
    ELSE "Ready"

\* ------------------------------------------------------------ helpers
\* The payload of a history response for `stock`, asked by call g.
HistoryOf(stock, g) == [symbol |-> stock.symbol, gen |-> g]
\* The payload of an info response for `stock`, asked by call g.
InfoOf(stock, g) == [symbol |-> stock.symbol, gen |-> g]
\* The predictions payload of provider m for `symbol`: asked by call g (via
\* "api"), or carried by a tick (via "socket", g = 0).
Forecast(symbol, m, g, via) ==
    [symbol |-> symbol, model |-> m, gen |-> g, via |-> via, days |-> HorizonDays]

SpreadKeepsFirst(a, b) ==
    [m \in (DOMAIN a) \cup (DOMAIN b) |-> IF m \in DOMAIN a THEN a[m] ELSE b[m]]

\* { ...a, ...b }
Spread(a, b) ==
    [m \in (DOMAIN a) \cup (DOMAIN b) |-> IF m \in DOMAIN b THEN b[m] ELSE a[m]]

\* arr.slice(start): from index start (0-based) to the end; a negative start
\* counts from the end, and one before the beginning means the beginning.
SliceFrom(s, start) ==
    LET from == IF start >= 0 THEN start
                ELSE IF Len(s) + start >= 0 THEN Len(s) + start
                ELSE 0
    IN  SubSeq(s, from + 1, Len(s))

PushTickKeepsFirst(prevData, data) ==
    LET newData == Append(prevData, data)
    IN  IF Len(newData) > BufferCap THEN SubSeq(newData, 1, BufferCap) ELSE newData

PushTickUnlessLoading(prevData, data) ==
    IF loading THEN prevData ELSE Append(prevData, data)

PushTickPrepends(prevData, data) ==
    LET newData == <<data>> \o prevData
    IN  IF Len(newData) > BufferCap
        THEN SubSeq(newData, 1, BufferCap)
        ELSE newData

\* The updater of setRealTimeData: append, keep the last 100.
PushTick(prevData, data) ==
    LET newData == Append(prevData, data)
    IN  IF Len(newData) > BufferCap
        THEN SliceFrom(newData, Len(newData) - BufferCap)
        ELSE newData

\* What the provider calls of a select can have answered.
\*   "unsent"  : predictStock not called yet
\*   "pending" : called, not settled
\*   "ok"      : { success: true, data: { predictions } }
\*   "empty"   : { success: true } with no predictions payload
\*   "fail"    : { success: false, error } (from the server, or from the catch
\*               of predictStock on a transport failure)
\*   "null"    : null, the body of a response that carries none
Settled == {"ok", "empty", "fail", "null"}
NoResults == [m \in Models |-> "unsent"]

PredictionsByModelKeepsAll(stock, g, results) ==
    [m \in {x \in Models : results[x] \in Settled} |->
        Forecast(stock.symbol, m, g, "api")]

\* predictionResults.forEach: the successful results with a payload, by model.
PredictionsByModel(stock, g, results) ==
    [m \in {x \in Models : results[x] = "ok"} |->
        Forecast(stock.symbol, m, g, "api")]

\* predictionResults.forEach throws when it reads `success` of a null result.
ForEachThrows(results) == \E m \in Models : results[m] = "null"

\* predictionResults.forEach: the models for which console.warn is called,
\* those whose result is not flagged successful, up to the result at which
\* the loop throws.
Warned(results) ==
    {models[i] : i \in {j \in 1..Len(models) :
                            /\ results[models[j]] = "fail"
                            /\ \A k \in 1..j : results[models[k]] # "null"}}

\* The PredictionMap while Promise.all still waits for a provider of call g:
\* nothing is reported before all have settled.
WhilePending(prev, stock, g, results) == prev

\* A request sent for call g: an axios call of the api module, or the
\* track_stock message of the socket (model "-" when it names none).
Request(kind, g, symbol, m) == [kind |-> kind, gen |-> g, symbol |-> symbol, model |-> m]

\* The record of an event: its kind, the call it belongs to, and what the kind
\* adds (the provider results of a finished call, the message of a tick).
Event(kind, g, more) == [kind |-> kind, gen |-> g, more |-> more]
\* The record of a select: also the stock that was given and the error text
\* that was on display when it was called.
SelectEvent(stock, g, more, cleared) ==
    [kind |-> "select", gen |-> g, more |-> more, stock |-> stock, cleared |-> cleared]

\* ---------------------------------------------------------------- api
\* What axios can do with a request: resolve with the server's response (the
\* data asked for, a response flagged successful that carries no payload, a
\* response flagged failed, a response whose body is null) or reject (no
\* connection, an error status).
Transport == {"data", "noPayload", "refused", "nullBody", "error"}

\* What a call of getStockHistory or getStockInfo gives its caller: a body
\* with its data, a body without data, null, or a rejection.
Fetched == {"ok", "noData", "null", "throw"}

\* getStockHistory and getStockInfo: response.data (the body, whose `data` the
\* caller reads), or the error thrown again.
GetStockHistory(transport) ==
    IF transport = "error" THEN "throw"
    ELSE IF transport = "data" THEN "ok"
    ELSE IF transport = "nullBody" THEN "null"
    ELSE "noData"
GetStockInfo(transport) ==
    IF transport = "error" THEN "throw"
    ELSE IF transport = "data" THEN "ok"
    ELSE IF transport = "nullBody" THEN "null"
    ELSE "noData"

PredictStockThrowsAgain(transport) ==
    IF transport = "error" THEN "throw"
    ELSE IF transport = "data" THEN "ok"
    ELSE IF transport = "noPayload" THEN "empty"
    ELSE IF transport = "nullBody" THEN "null"
    ELSE "fail"

\* predictStock: response.data, or { success: false, error } from its catch.
PredictStock(transport) ==
    IF transport = "error" THEN "fail"
    ELSE IF transport = "data" THEN "ok"
    ELSE IF transport = "noPayload" THEN "empty"
    ELSE IF transport = "nullBody" THEN "null"
    ELSE "fail"

\* The record of a call of the api module.
ApiCall(fn, transport, returned) == [fn |-> fn, transport |-> transport, returned |-> returned]

\* -------------------------------------------------------------- chart
\* The values of the time range toggle, and the entries each keeps; '1y'
\* keeps all.
TimeRanges == {"1m", "3m", "6m", "1y"}
Sliced == [r \in {"1m", "3m", "6m"} |-> IF r = "1m" THEN 30 ELSE IF r = "3m" THEN 90 ELSE 180]

\* A historical series of L daily bars, the last one today: the dates on the
\* time axis (in feed ticks, today at 0) and the closing prices.
ClosePrice(i) == 1000 + i
HistoricalData(L) ==
    [dates |-> [i \in 1..L |-> (i - L) * TicksPerDay],
     close |-> [i \in 1..L |-> ClosePrice(i)]]
\* The same with one closing price more than there are dates: the page takes
\* the two arrays of the response as they come and never compares their
\* lengths.
RaggedData(L) ==
    [dates |-> HistoricalData(L).dates,
     close |-> [i \in 1..(L + 1) |-> ClosePrice(i)]]

\* The price a tick of timestamp t carries.
TickPrice(t) == 2000 + t

\* The position of model m in the models array.
ModelIndex(m) == CHOOSE i \in 1..Len(models) : models[i] = m
\* The predictions payload of model m for `days` days: the days after today,
\* and for each a predicted price between its bounds.
PredictionData(m, days) ==
    [dates |-> [i \in 1..days |-> i * TicksPerDay],
     predicted_prices |-> [i \in 1..days |-> 3000 + 100 * ModelIndex(m) + i],
     lower_bounds |-> [i \in 1..days |-> 3000 + 100 * ModelIndex(m) + i - 10],
     upper_bounds |-> [i \in 1..days |-> 3000 + 100 * ModelIndex(m) + i + 10]]

\* selectedModel.toUpperCase()
ToUpperCase == [m \in Models |->
    IF m = "arima" THEN "ARIMA" ELSE IF m = "prophet" THEN "PROPHET" ELSE "ML"]

LookbackSliceOwnLength(arr, dates, timeRange) ==
    IF timeRange \in DOMAIN Sliced
    THEN LET cutoff == Len(arr) - Sliced[timeRange]
         IN  SliceFrom(arr, cutoff)
    ELSE arr

\* The time range filter of one array: with cutoff = dates.length - 30 (- 90,
\* - 180), the one cutoff of both arrays, arr.slice(cutoff); arr under '1y'.
LookbackSlice(arr, dates, timeRange) ==
    IF timeRange \in DOMAIN Sliced
    THEN LET cutoff == Len(dates) - Sliced[timeRange]
         IN  SliceFrom(arr, cutoff)
    ELSE arr

PushLiveLatestOnly(arr, liveData, field) ==
    IF Len(liveData) > 0
    THEN Append(arr, liveData[Len(liveData)][field])
    ELSE arr

\* realTimeData.forEach(data => arr.push(data[field]))
PushLive(arr, liveData, field) ==
    arr \o [i \in 1..Len(liveData) |-> liveData[i][field]]

\* The three datasets of the selected model: the prediction line, the upper
\* and the lower bound, all on the axis x2.
PredictionDatasets(selectedModel, predictionData) ==
    <<[label |-> ToUpperCase[selectedModel] \o " Prediction",
       data |-> predictionData.predicted_prices, xAxisID |-> "x2"],
      [label |-> "Confidence Interval",
       data |-> predictionData.upper_bounds, xAxisID |-> "x2"],
      [label |-> "Lower Bound",
       data |-> predictionData.lower_bounds, xAxisID |-> "x2"]>>

\* The arrays a call of prepareChartData works on, by name: the two of the
\* historicalData prop, the two the spread makes and the two slice makes.  A
\* variable of the call holds an array by its name, and a push changes the
\* array the variable holds.
Arrays == {"props.dates", "props.close", "spread.dates", "spread.close",
           "slice.dates", "slice.close"}

SpreadArraysAliased(historicalData) ==
    [heap |-> [a \in Arrays |->
                  IF a = "props.dates" THEN historicalData.dates
                  ELSE IF a = "props.close" THEN historicalData.close
                  ELSE <<>>],
     filteredDates |-> "props.dates",
     filteredPrices |-> "props.close"]

\* let filteredDates = [...historicalData.dates] and let filteredPrices =
\* [...historicalData.close]: two new arrays with the entries of the props'.
SpreadArrays(historicalData) ==
    [heap |-> [a \in Arrays |->
                  IF a \in {"props.dates", "spread.dates"} THEN historicalData.dates
                  ELSE IF a \in {"props.close", "spread.close"} THEN historicalData.close
                  ELSE <<>>],
     filteredDates |-> "spread.dates",
     filteredPrices |-> "spread.close"]

\* The time range branches: the cutoff is taken from filteredDates, and both
\* variables get the new array slice returns; '1y' has no branch.
SliceArrays(run, timeRange) ==
    IF timeRange \in DOMAIN Sliced
    THEN LET dates == run.heap[run.filteredDates]
             prices == run.heap[run.filteredPrices]
         IN  [heap |-> [run.heap EXCEPT
                           !["slice.dates"] = LookbackSlice(dates, dates, timeRange),
                           !["slice.close"] = LookbackSlice(prices, dates, timeRange)],
              filteredDates |-> "slice.dates",
              filteredPrices |-> "slice.close"]
    ELSE run

\* realTimeData.forEach: each tick's timestamp is pushed to the array
\* filteredDates holds and its price to the array filteredPrices holds.
PushArrays(run, liveData) ==
    [run EXCEPT !.heap = [a \in Arrays |->
                             IF a = run.filteredDates THEN PushLive(run.heap[a], liveData, "timestamp")
                             ELSE IF a = run.filteredPrices THEN PushLive(run.heap[a], liveData, "price")
                             ELSE run.heap[a]]]

\* The arrays after the first part of prepareChartData (spread, time range,
\* live ticks).
FilteredArrays(historicalData, liveData, timeRange) ==
    PushArrays(SliceArrays(SpreadArrays(historicalData), timeRange), liveData)

\* prepareChartData(): null without a historical series; else the labels and
\* prices of the time range with the live ticks behind them, the datasets of
\* the selected model when predictions are shown, and the model's dates.
PrepareChartData(historicalData, liveData, forecasts, timeRange, showPredictions, selectedModel) ==
    IF historicalData \in {Null, Undefined} THEN Null
    ELSE LET run == FilteredArrays(historicalData, liveData, timeRange)
             filteredDates == run.heap[run.filteredDates]
             filteredPrices == run.heap[run.filteredPrices]
             present == selectedModel \in DOMAIN forecasts
             historical == [label |-> "Historical Price", data |-> filteredPrices]
         IN  [labels |-> filteredDates,
              datasets |-> IF showPredictions /\ present
                           THEN <<historical>> \o
                                PredictionDatasets(selectedModel, forecasts[selectedModel])
                           ELSE <<historical>>,
              predictionDates |-> IF present THEN forecasts[selectedModel].dates
                                  ELSE <<>>]

\* The props after a call of prepareChartData: the arrays of historicalData
\* as the call leaves them; the call only reads realTimeData and predictions.
PropsAfterPrepare(props, state) ==
    IF props.historicalData \in {Null, Undefined} THEN props
    ELSE LET run == FilteredArrays(props.historicalData, props.realTimeData, state.timeRange)
         IN  [props EXCEPT !.historicalData =
                               [dates |-> run.heap["props.dates"],
                                close |-> run.heap["props.close"]]]

\* useState('1y'), useState(true), useState('arima')
InitialChartState ==
    [timeRange |-> "1y", showPredictions |-> TRUE, selectedModel |-> "arima"]

\* ------------------------------------------------------------ actions
AppInit ==
    /\ selectedStock = Null
    /\ stockData = Null
    /\ stockInfo = Null
    /\ predictions = EmptyMap
    /\ loading = FALSE
    /\ error = NoError
    /\ realTimeData = <<>>
    /\ calls = <<>>
    /\ tracked = {}
    /\ requests = EmptyBag
    /\ feedClock = 0
    /\ accepted = <<>>
    /\ lastEvent = Event("init", 0, FALSE)
    /\ events = 0
    /\ apiCall = Null

\* The App with no StockChart mounted.
Init ==
    /\ AppInit
    /\ chartProps = Null
    /\ chartState = InitialChartState
    /\ chartData = Null

SelectResetNoSpinner(stock) ==
    /\ loading' = loading
    /\ error' = NoError
    /\ selectedStock' = stock
    /\ stockData' = Null
    /\ stockInfo' = Null
    /\ predictions' = EmptyMap
    /\ realTimeData' = <<>>

SelectResetKeepsBuffer(stock) ==
    /\ loading' = TRUE
    /\ error' = NoError
    /\ selectedStock' = stock
    /\ stockData' = Null
    /\ stockInfo' = Null
    /\ predictions' = EmptyMap
    /\ realTimeData' = realTimeData

SelectResetKeepsError(stock) ==
    /\ loading' = TRUE
    /\ error' = error
    /\ selectedStock' = stock
    /\ stockData' = Null
    /\ stockInfo' = Null
    /\ predictions' = EmptyMap
    /\ realTimeData' = <<>>

\* handleStockSelect up to its first await: the synchronous resets.
SelectReset(stock) ==
    /\ loading' = TRUE
    /\ error' = NoError
    /\ selectedStock' = stock
    /\ stockData' = Null
    /\ stockInfo' = Null
    /\ predictions' = EmptyMap
    /\ realTimeData' = <<>>

\* handleStockSelect(stock), up to the await of getStockHistory.
HandleStockSelect(stock) ==
    /\ SelectReset(stock)
    /\ calls' = Append(calls, [stock |-> stock, pc |-> "history", results |-> NoResults])
    /\ accepted' = <<>>
    /\ lastEvent' = SelectEvent(stock, generation + 1,
                                /\ stockData \notin {Null, Undefined}
                                /\ predictions # EmptyMap
                                /\ realTimeData # <<>>
                                /\ error # NoError,
                                error)
    /\ requests' = requests (+) SetToBag({Request("history", generation + 1, stock.symbol, "-")})
    /\ UNCHANGED <<tracked, feedClock>>

\* socket.emit('track_stock', { symbol }) of call g.
TrackStock(g) == tracked \cup {g}

PredictRequestsFirstModel(g, symbol) ==
    SetToBag({Request("track_stock", g, symbol, "-"),
              Request("predict", g, symbol, models[1])})

\* The track_stock message and the predictStock calls of call g, one per model.
PredictRequests(g, symbol) ==
    SetToBag({Request("track_stock", g, symbol, "-")}
             \cup {Request("predict", g, symbol, m) : m \in Models})

CatchFinallyKeepsSpinner(g) ==
    /\ error' = FetchMsg
    /\ loading' = loading
    /\ calls' = [calls EXCEPT ![g].pc = "done"]

\* The catch and finally blocks of call g.
CatchFinally(g) ==
    /\ error' = FetchMsg
    /\ loading' = FALSE
    /\ calls' = [calls EXCEPT ![g].pc = "done"]

\* getStockHistory of call g settles; reading `data` of a null response
\* throws, as a rejected request does.
HistorySettle(g, outcome) ==
    /\ calls[g].pc = "history"
    /\ \/ /\ outcome = "ok"
          /\ stockData' = HistoryOf(calls[g].stock, g)
          /\ calls' = [calls EXCEPT ![g].pc = "info"]
          /\ requests' = requests (+) SetToBag({Request("info", g, calls[g].stock.symbol, "-")})
          /\ lastEvent' = Event("historyOk", g, FALSE)
          /\ UNCHANGED <<loading, error>>
       \/ /\ outcome = "noData"
          /\ stockData' = Undefined
          /\ calls' = [calls EXCEPT ![g].pc = "info"]
          /\ requests' = requests (+) SetToBag({Request("info", g, calls[g].stock.symbol, "-")})
          /\ lastEvent' = Event("historyNoData", g, FALSE)
          /\ UNCHANGED <<loading, error>>
       \/ /\ outcome \in {"throw", "null"}
          /\ CatchFinally(g)
          /\ lastEvent' = Event("historyFail", g, FALSE)
          /\ UNCHANGED <<stockData, requests>>
    /\ UNCHANGED <<selectedStock, stockInfo, predictions, realTimeData,
                   tracked, feedClock, accepted>>

\* getStockInfo of call g settles; on success track_stock is emitted and the
\* three predictStock calls are started; reading `data` of a null response
\* throws, as a rejected request does.
InfoSettle(g, outcome) ==
    /\ calls[g].pc = "info"
    /\ \/ /\ outcome = "ok"
          /\ stockInfo' = InfoOf(calls[g].stock, g)
          /\ tracked' = TrackStock(g)
          /\ requests' = requests (+) PredictRequests(g, calls[g].stock.symbol)
          /\ calls' = [calls EXCEPT ![g].pc = "predict",
                                    ![g].results = [m \in Models |-> "pending"]]
          /\ lastEvent' = Event("infoOk", g, FALSE)
          /\ UNCHANGED <<loading, error>>
       \/ /\ outcome = "noData"
          /\ stockInfo' = Undefined
          /\ tracked' = TrackStock(g)
          /\ requests' = requests (+) PredictRequests(g, calls[g].stock.symbol)
          /\ calls' = [calls EXCEPT ![g].pc = "predict",
                                    ![g].results = [m \in Models |-> "pending"]]
          /\ lastEvent' = Event("infoNoData", g, FALSE)
          /\ UNCHANGED <<loading, error>>
       \/ /\ outcome \in {"throw", "null"}
          /\ CatchFinally(g)
          /\ lastEvent' = Event("infoFail", g, FALSE)
          /\ UNCHANGED <<stockInfo, tracked, requests>>
    /\ UNCHANGED <<selectedStock, stockData, predictions, realTimeData,
                   feedClock, accepted>>

AfterPredictStockAsksAgain(g, m, res) ==
    IF res = "fail"
    THEN requests (+) SetToBag({Request("predict", g, calls[g].stock.symbol, m)})
    ELSE requests

\* The requests once predictStock of call g for model m has settled with
\* `res`: it returns its one response, or the failure its catch made of the
\* error, and handleStockSelect takes either as the result; nothing is sent.
AfterPredictStock(g, m, res) == requests

\* The predictStock call of call g for model m settles with `res`.  When it is
\* the last of the three, Promise.all resolves and the handler runs to its
\* end, or into its catch when the forEach throws on a null result.
PredictSettle(g, m, res) ==
    /\ calls[g].pc = "predict"
    /\ calls[g].results[m] = "pending"
    /\ LET results == [calls[g].results EXCEPT ![m] = res]
           byModel == PredictionsByModel(calls[g].stock, g, results)
       IN  IF \E x \in Models : results[x] = "pending"
           THEN /\ calls' = [calls EXCEPT ![g].results = results]
                /\ predictions' = WhilePending(predictions, calls[g].stock, g, results)
                /\ lastEvent' = Event("providerSettled", g, FALSE)
                /\ UNCHANGED <<loading, error>>
           ELSE IF ForEachThrows(results)
           THEN /\ calls' = [calls EXCEPT ![g].pc = "done", ![g].results = NoResults]
                /\ error' = FetchMsg
                /\ loading' = FALSE
                /\ lastEvent' = Event("predictThrew", g, results)
                /\ UNCHANGED predictions
           ELSE /\ calls' = [calls EXCEPT ![g].pc = "done", ![g].results = NoResults]
                /\ predictions' = byModel
                /\ error' = IF Cardinality(DOMAIN byModel) = 0 THEN NoPredMsg ELSE error
                /\ loading' = FALSE
                /\ lastEvent' = Event("predictDone", g, results)
    /\ requests' = AfterPredictStock(g, m, res)
    /\ UNCHANGED <<selectedStock, stockData, stockInfo, realTimeData,
                   tracked, feedClock, accepted>>

MatchesAnySymbol(data) == selectedStock # Null

MatchesFirstSelection(data) == calls # <<>> /\ data.symbol = calls[1].stock.symbol

\* The guard of the 'stock_update' handler: a stock is selected and the
\* message is for its symbol.
Matches(data) == selectedStock # Null /\ data.symbol = selectedStock.symbol

\* The 'stock_update' handler, for the message `data`.
StockUpdate(data) ==
    /\ feedClock' = feedClock + 1
    /\ IF Matches(data)
       THEN /\ realTimeData' = PushTick(realTimeData, data)
            /\ accepted' = Append(accepted, data)
            /\ predictions' = IF data.predictions # EmptyMap
                              THEN Spread(predictions, data.predictions)
                              ELSE predictions
            /\ lastEvent' = Event("tick", generation, data)
       ELSE /\ lastEvent' = Event("tickDropped", generation, data)
            /\ UNCHANGED <<realTimeData, accepted, predictions>>
    /\ UNCHANGED <<selectedStock, stockData, stockInfo, loading, error, calls,
                   tracked, requests>>

\* The 'connect_error' handler.
ConnectError ==
    /\ error' = ConnectMsg
    /\ lastEvent' = Event("connectError", generation, FALSE)
    /\ UNCHANGED <<selectedStock, stockData, stockInfo, predictions, loading,
                   realTimeData, calls, tracked, requests, feedClock, accepted>>

\* ------------------------------------------------------------- inputs
\* A 'stock_update' message: { symbol, timestamp, price, change } and, when the
\* server sends them, predictions by model.
TickMsg(s, t, withPredictions) ==
    [symbol |-> s, timestamp |-> t, price |-> TickPrice(t),
     predictions |-> IF withPredictions
                     THEN [m \in {"arima"} |-> Forecast(s, m, 0, "socket")]
                     ELSE EmptyMap]

\* The messages the feed can deliver next: at-least-once (the timestamp of the
\* previous message may come again), in order.
TickInputs ==
    {TickMsg(s, t, p) :
        s \in Symbols,
        t \in {x \in {feedClock, feedClock + 1} : x >= 1},
        p \in BOOLEAN}

\* One more event of a run of at most MaxEvents.
Counted == events < MaxEvents /\ events' = events + 1 /\ UNCHANGED <<chartVars, apiCall>>

\* The user picks a stock in StockSearch.
Select ==
    \E stock \in Stocks : generation < MaxSelects /\ HandleStockSelect(stock) /\ Counted
\* The requests of the calls settle, each on its own.
History ==
    \E g \in 1..generation, o \in Fetched : HistorySettle(g, o) /\ Counted
Info ==
    \E g \in 1..generation, o \in Fetched : InfoSettle(g, o) /\ Counted
Predict ==
    \E g \in 1..generation, m \in Models, r \in Settled : PredictSettle(g, m, r) /\ Counted
\* The live feed delivers its next message (a message delivered again is the
\* matter of ViewTick).
Tick ==
    \E data \in {d \in TickInputs : d.timestamp = feedClock + 1} :
        feedClock < MaxTicks /\ StockUpdate(data) /\ Counted
\* The live feed fails to connect.
FeedError == ConnectError /\ Counted

Next == Select \/ History \/ Info \/ Predict \/ Tick \/ FeedError

Spec == Init /\ [][Next]_vars

\* The buffer scenario: one select at any moment of a stream of fresh ticks
\* for one symbol, while the requests of the select stay outstanding.
LiveSelect ==
    \E stock \in Stocks : calls = <<>> /\ HandleStockSelect(stock) /\ UNCHANGED <<events, chartVars, apiCall>>
LiveTick ==
    /\ feedClock < MaxLiveTicks
    /\ StockUpdate(TickMsg("AAPL", feedClock + 1, FALSE))
    /\ UNCHANGED <<events, chartVars, apiCall>>

NextLive == LiveSelect \/ LiveTick

SpecLive == Init /\ [][NextLive]_vars

\* The chart on its own: StockChart is mounted with a historical series of up
\* to MaxHist bars, a live buffer the feed can have filled and the forecasts
\* of some models; the user then works its toggles, and React renders it
\* again whenever it likes.
ChartBuffers ==
    UNION {{[i \in 1..n |-> TickMsg("AAPL", ts[i], FALSE)] :
               ts \in {f \in [1..n -> 1..n] : \A i \in 1..n : f[i] \in {i - 1, i}}} :
           n \in 0..MaxChartTicks}
ChartPredictions ==
    {[m \in D |-> PredictionData(m, HorizonDays)] :
        D \in {{}, {models[2]}, Models \ {models[2]}, Models}}

\* A render of StockChart in the state `state`: prepareChartData runs.
ChartRender(state) ==
    /\ chartState' = state
    /\ chartData' = PrepareChartData(chartProps.historicalData, chartProps.realTimeData,
                                     chartProps.predictions, state.timeRange,
                                     state.showPredictions, state.selectedModel)
    /\ chartProps' = PropsAfterPrepare(chartProps, state)
    /\ UNCHANGED appVars

InitChart ==
    /\ AppInit
    /\ \E L \in 0..MaxHist, ragged \in BOOLEAN, buffer \in ChartBuffers,
          forecasts \in ChartPredictions :
          chartProps = [historicalData |-> IF ragged THEN RaggedData(L) ELSE HistoricalData(L),
                        realTimeData |-> buffer,
                        predictions |-> forecasts]
    /\ chartState = InitialChartState
    /\ chartData = PrepareChartData(chartProps.historicalData, chartProps.realTimeData,
                                    chartProps.predictions, chartState.timeRange,
                                    chartState.showPredictions, chartState.selectedModel)

\* The value a toggle group hands to its handler: the value of the button
\* clicked, or Null for a click on the pressed button.
Picked(v) == [value |-> v]

\* The handlers of the three toggle groups: null is ignored.
HandleTimeRangeChange(newTimeRange) ==
    IF newTimeRange # Null
    THEN ChartRender([chartState EXCEPT !.timeRange = newTimeRange.value])
    ELSE UNCHANGED vars
HandlePredictionToggle(newShowPredictions) ==
    IF newShowPredictions # Null
    THEN ChartRender([chartState EXCEPT !.showPredictions = newShowPredictions.value])
    ELSE UNCHANGED vars
HandleModelChange(newModel) ==
    IF newModel # Null
    THEN ChartRender([chartState EXCEPT !.selectedModel = newModel.value])
    ELSE UNCHANGED vars

TimeRange ==
    \E r \in {Picked(v) : v \in TimeRanges} \cup {Null} : HandleTimeRangeChange(r)
Toggle ==
    \E b \in {Picked(v) : v \in BOOLEAN} \cup {Null} : HandlePredictionToggle(b)
\* The model group is rendered only while the predictions are shown, with one
\* button per model of the predictions prop.
Model ==
    /\ chartState.showPredictions
    /\ \E m \in {Picked(v) : v \in DOMAIN chartProps.predictions} \cup {Null} :
          HandleModelChange(m)
Rerender == \E state \in {chartState} : ChartRender(state)

NextChart == TimeRange \/ Toggle \/ Model \/ Rerender

SpecChart == InitChart /\ [][NextChart]_vars

\* The view scenario: one select, its requests settling, and a feed that may
\* deliver a message again.
ViewHistory ==
    \E g \in 1..generation, o \in Fetched :
        HistorySettle(g, o) /\ UNCHANGED <<events, chartVars, apiCall>>
ViewInfo ==
    \E g \in 1..generation, o \in Fetched :
        InfoSettle(g, o) /\ UNCHANGED <<events, chartVars, apiCall>>
ViewPredict ==
    \E g \in 1..generation, m \in Models, r \in Settled :
        PredictSettle(g, m, r) /\ UNCHANGED <<events, chartVars, apiCall>>
ViewTick ==
    \E data \in TickInputs :
        feedClock < MaxViewTicks /\ StockUpdate(data) /\ UNCHANGED <<events, chartVars, apiCall>>

NextView == LiveSelect \/ ViewHistory \/ ViewInfo \/ ViewPredict \/ ViewTick

SpecView == Init /\ [][NextView]_vars

\* The settling scenario: selects at any moment, and every request that is
\* outstanding settles in the end, one way or the other.
FairSelect ==
    \E stock \in Stocks :
        generation < MaxFairSelects /\ HandleStockSelect(stock) /\ UNCHANGED <<events, chartVars, apiCall>>

NextFair == FairSelect \/ ViewHistory \/ ViewInfo \/ ViewPredict

SpecFair ==
    /\ Init /\ [][NextFair]_vars
    /\ WF_vars(ViewHistory) /\ WF_vars(ViewInfo) /\ WF_vars(ViewPredict)

\* The api scenario: one select, with each request followed through axios and
\* the api module.  A provider call that threw would reject Promise.all and
\* take handleStockSelect to its catch.
ApiHistory ==
    \E g \in 1..generation, t \in Transport :
        /\ HistorySettle(g, GetStockHistory(t))
        /\ apiCall' = ApiCall("getStockHistory", t, GetStockHistory(t))
        /\ UNCHANGED <<events, chartVars>>
ApiInfo ==
    \E g \in 1..generation, t \in Transport :
        /\ InfoSettle(g, GetStockInfo(t))
        /\ apiCall' = ApiCall("getStockInfo", t, GetStockInfo(t))
        /\ UNCHANGED <<events, chartVars>>
ApiPredict ==
    \E g \in 1..generation, m \in Models, t \in Transport :
        /\ IF PredictStock(t) = "throw"
           THEN /\ calls[g].pc = "predict"
                /\ CatchFinally(g)
                /\ lastEvent' = Event("predictAborted", g, FALSE)
                /\ UNCHANGED <<selectedStock, stockData, stockInfo, predictions, realTimeData,
                               tracked, requests, feedClock, accepted>>
           ELSE PredictSettle(g, m, PredictStock(t))
        /\ apiCall' = ApiCall("predictStock", t, PredictStock(t))
        /\ UNCHANGED <<events, chartVars>>

NextApi == LiveSelect \/ ApiHistory \/ ApiInfo \/ ApiPredict

SpecApi == Init /\ [][NextApi]_vars

SessionPropsWithoutPredictions ==
    [historicalData |-> IF stockData \in {Null, Undefined} THEN stockData
                        ELSE HistoricalData(TradingDays),
     realTimeData |-> realTimeData,
     predictions |-> EmptyMap]

\* The props App hands to StockChart: the historical series (a year of daily
\* bars), the live buffer and the PredictionMap with each model's payload.
SessionProps ==
    [historicalData |-> IF stockData \in {Null, Undefined} THEN stockData
                        ELSE HistoricalData(TradingDays),
     realTimeData |-> realTimeData,
     predictions |-> [m \in DOMAIN predictions |-> PredictionData(m, predictions[m].days)]]

\* App renders StockChart once a stock is selected, its series is there and
\* the spinner is gone.
Mounted == selectedStock # Null /\ stockData \notin {Null, Undefined} /\ ~loading

\* The chart data StockChart prepares from the session in the state `state`.
SessionChart(state) ==
    PrepareChartData(SessionProps.historicalData, SessionProps.realTimeData,
                     SessionProps.predictions, state.timeRange,
                     state.showPredictions, state.selectedModel)
ChartStates ==
    [timeRange : TimeRanges, showPredictions : BOOLEAN, selectedModel : Models]

\* ------------------------------------------------------------- claims
\* The forecasts of the PredictionMap that a provider call of call g returned.
ApiForecastsOf(g) ==
    {m \in DOMAIN predictions : predictions[m].via = "api" /\ predictions[m].gen = g}
ApiForecasts ==
    {m \in DOMAIN predictions : predictions[m].via = "api"}

\* The last n entries of s, all of s when it has no more than n.
LastN(s, n) == IF Len(s) <= n THEN s ELSE SubSeq(s, Len(s) - n + 1, Len(s))

\* C1: no tick and no provider result of an earlier selection is ever merged
\* into the state of the current selection: every buffered tick arrived since
\* the last select and has the selected symbol, and every forecast a provider
\* returned was asked for by the current select call.
C1_NoStaleMerge ==
    /\ realTimeData = LastN(accepted, BufferCap)
    /\ \A i \in 1..Len(realTimeData) :
          selectedStock # Null /\ realTimeData[i].symbol = selectedStock.symbol
    /\ ApiForecasts = ApiForecastsOf(generation)

\* C2: the historical series (and the stock information), when set, is the one
\* fetched by the latest select call.
C2_HistoricalIsCurrent ==
    /\ stockData \notin {Null, Undefined} => stockData = HistoryOf(selectedStock, generation)
    /\ stockInfo \notin {Null, Undefined} => stockInfo = InfoOf(selectedStock, generation)

\* C3: the live buffer never holds more than 100 entries, and it holds the
\* last 100 (or all, when there are fewer) of the ticks pushed since the last
\* select, in arrival order.
C3_BufferKeepsLast100 ==
    /\ Len(realTimeData) <= 100
    /\ realTimeData = LastN(accepted, 100)

\* C3 witness: 150 ticks pushed since the select, the buffer holds ticks 51..150.
C3_Witness ==
    /\ Len(accepted) = 150
    /\ Len(realTimeData) = 100
    /\ realTimeData[1] = accepted[51]
    /\ realTimeData[100] = accepted[150]

\* The results of the provider calls of the select call that just finished.
DoneResults == lastEvent.more
CurrentDone == lastEvent.kind = "predictDone" /\ lastEvent.gen = generation

\* C4: when some but not all providers of the current selection fail (the
\* others succeeding), the PredictionMap holds exactly one entry per succeeding
\* provider, keyed by its model id, and the status is Ready, not Error (read
\* for a selection during which the live feed reported no connection error).
C4_PartialFailureIsReady ==
    (/\ CurrentDone
     /\ \A m \in Models : DoneResults[m] \in {"ok", "fail"}
     /\ \E m \in Models : DoneResults[m] = "fail"
     /\ \E m \in Models : DoneResults[m] = "ok")
    => /\ DOMAIN predictions = {m \in Models : DoneResults[m] = "ok"}
       /\ \A m \in DOMAIN predictions : predictions[m].model = m
       /\ status = "Ready" \/ error = ConnectMsg

\* C5: when every provider of the current selection fails, the session ends
\* with status Error, the 'no predictions' error detail, and an empty
\* PredictionMap.
C5_AllFailIsError ==
    (CurrentDone /\ \A m \in Models : DoneResults[m] = "fail")
    => /\ status = "Error"
       /\ error = NoPredMsg
       /\ predictions = EmptyMap

\* C5 witness: the current select call has just finished with all three
\* providers failed.
C5_Witness ==
    CurrentDone /\ \A m \in Models : DoneResults[m] = "fail"

\* C6: a provider's successful result is in the PredictionMap as soon as that
\* call has settled, while another provider is still outstanding.
C6_ReportedAsSettled ==
    (generation > 0 /\ calls[generation].pc = "predict")
    => \A m \in Models :
          calls[generation].results[m] = "ok" => m \in ApiForecastsOf(generation)

\* C7: the status leaves Loading only by the outcome of the current selection's
\* own requests: while the current select call is not finished the status is
\* Loading.
C7_LoadingUntilOwnOutcome ==
    (generation > 0 /\ calls[generation].pc # "done") => status = "Loading"

\* C8 (as claimed): Loading is entered only by select, Ready and Error are
\* entered only from Loading, and Idle is never re-entered.
C8_StatusMachine ==
    [][/\ (status' = "Loading" /\ status # "Loading") => lastEvent'.kind = "select"
       /\ (status' = "Ready" /\ status # "Ready") => status = "Loading"
       /\ (status' = "Error" /\ status # "Error") => status = "Loading"
       /\ status' = "Idle" => status = "Idle"]_vars

\* C8 (amended): Loading is entered only by select, Ready is entered only from
\* Loading, Idle is never re-entered, and a tick never changes the status; Error
\* is entered from Loading, and also from Idle by a feed error and from Ready by
\* a feed error or by the failure of a select call that ran beside another.
C8_StatusMachineWithFeedError ==
    [][/\ (status' = "Loading" /\ status # "Loading") => lastEvent'.kind = "select"
       /\ (status' = "Ready" /\ status # "Ready") => status = "Loading"
       /\ (status' = "Error" /\ status = "Idle") => lastEvent'.kind = "connectError"
       /\ (status' = "Error" /\ status = "Ready")
             => \/ lastEvent'.kind = "connectError"
                \/ /\ lastEvent'.kind \in {"historyFail", "infoFail", "predictDone", "predictThrew"}
                   /\ generation > 1
       /\ status' = "Idle" => status = "Idle"
       /\ lastEvent'.kind \in {"tick", "tickDropped"} => status' = status]_vars

\* C8 witness: Error entered from Idle, by a feed error before any select.
C8_Witness ==
    /\ selectedStock = Null
    /\ lastEvent.kind = "connectError"
    /\ status = "Error"

\* C9: if the historical fetch of the current selection fails, the status is
\* Error with the fetch error detail, historical is unset, and the
\* PredictionMap holds no provider forecast.
C9_HistoryFailureIsFatal ==
    (lastEvent.kind = "historyFail" /\ lastEvent.gen = generation)
    => /\ status = "Error"
       /\ error = FetchMsg
       /\ stockData = Null
       /\ ApiForecasts = {}

\* C10: right after select(stock) the status is Loading, the active instrument
\* is the given one, the error detail is cleared, and the live buffer, the
\* PredictionMap and the historical series are empty, whatever was there before.
C10_SelectResets ==
    lastEvent.kind = "select"
    => /\ status = "Loading"
       /\ selectedStock = lastEvent.stock
       /\ error = NoError
       /\ realTimeData = <<>>
       /\ predictions = EmptyMap
       /\ stockData = Null

\* C10 witness: a select made when a series, forecasts, a buffered tick and an
\* error detail were all present.
C10_Witness ==
    lastEvent.kind = "select" /\ lastEvent.more

\* The requests sent for call g, and the requests of each stage of a call.
RequestsOf(g) == {r \in BagToSet(requests) : r.gen = g}
HistoryRequest(g) == Request("history", g, calls[g].stock.symbol, "-")
InfoRequest(g) == Request("info", g, calls[g].stock.symbol, "-")
FeedAndForecastRequests(g) == BagToSet(PredictRequests(g, calls[g].stock.symbol))

\* C11 as stated: every select call requests the historical series,
\* subscribes the live feed for the symbol and starts one forecast request
\* for each provider: a call that has ended has sent them all.
C11_SelectStartsAll ==
    \A g \in 1..generation :
        calls[g].pc = "done" =>
            {HistoryRequest(g)} \cup FeedAndForecastRequests(g) \subseteq RequestsOf(g)

\* C11 amended: every select call requests the historical series of its
\* symbol at once and exactly once; it asks for the company details only
\* after the history arrived, and it subscribes the live feed and starts the
\* forecast requests, one per provider and once each, only after the details
\* arrived; a call whose history or details request was rejected has sent
\* neither the subscription nor a forecast request, while a response that
\* resolved without data lets the call go on; every request names the call's
\* symbol.
C11_SelectStartsInSequence ==
    \A g \in 1..generation :
        LET sent == RequestsOf(g)
            early == {HistoryRequest(g)}
            middle == early \cup {InfoRequest(g)}
            all == middle \cup FeedAndForecastRequests(g)
        IN  /\ \A r \in sent : r.symbol = calls[g].stock.symbol /\ CopiesIn(r, requests) = 1
            /\ Cardinality(FeedAndForecastRequests(g)) = Len(models) + 1
            /\ calls[g].pc = "history" => sent = early
            /\ calls[g].pc = "info" => sent = middle
            /\ calls[g].pc = "predict" => sent = all
            /\ calls[g].pc = "done" => sent \in {early, middle, all}
            /\ g \in tracked <=> sent = all
            /\ lastEvent.gen = g /\ lastEvent.kind = "historyFail" => sent = early
            /\ lastEvent.gen = g /\ lastEvent.kind \in {"infoFail", "historyOk", "historyNoData"}
                  => sent = middle
            /\ lastEvent.gen = g
                  /\ lastEvent.kind \in {"infoOk", "infoNoData", "providerSettled", "predictDone",
                                        "predictThrew"}
                  => sent = all

\* The details of a call just arrived: the subscription and the three
\* forecast requests are out.
C11_Witness ==
    /\ lastEvent.kind = "infoOk"
    /\ FeedAndForecastRequests(lastEvent.gen) \subseteq RequestsOf(lastEvent.gen)
    /\ \E m \in Models :
          Request("predict", lastEvent.gen, calls[lastEvent.gen].stock.symbol, m) \in RequestsOf(lastEvent.gen)

\* C12: a tick whose symbol differs from the selected stock's, or that arrives
\* while no stock is selected, is dropped and changes neither the buffer, the
\* PredictionMap, the historical series, the selection, the status nor the
\* error; a tick for the selected symbol is put at the end of the buffer,
\* behind the ticks already there.
C12_TickFilter ==
    [][lastEvent'.kind \in {"tick", "tickDropped"} =>
          LET data == lastEvent'.more
              n == Len(realTimeData')
          IN  IF selectedStock = Null \/ data.symbol # selectedStock.symbol
              THEN /\ lastEvent'.kind = "tickDropped"
                   /\ UNCHANGED <<realTimeData, predictions, stockData, selectedStock, error>>
                   /\ status' = status
              ELSE /\ lastEvent'.kind = "tick"
                   /\ n = IF Len(realTimeData) < BufferCap THEN Len(realTimeData) + 1 ELSE BufferCap
                   /\ realTimeData'[n] = data
                   /\ SubSeq(realTimeData', 1, n - 1) = LastN(realTimeData, n - 1)]_vars

\* A tick for the selected symbol was just put behind an earlier, different
\* one, after a message had been dropped (the feed has
\* delivered three messages and the buffer holds two).
C12_Witness ==
    /\ lastEvent.kind = "tick"
    /\ selectedStock # Null
    /\ feedClock = 3
    /\ Len(realTimeData) = 2
    /\ realTimeData[1] # realTimeData[2]
    /\ realTimeData[2] = lastEvent.more

\* The chart on display: the series of the props, the primary timeline and
\* prices of the chart data, and how many of their entries are historical.
HistDates == chartProps.historicalData.dates
HistClose == chartProps.historicalData.close
PrimaryDates == chartData.labels
PrimaryPrices == chartData.datasets[1].data
HistoricalKept == Len(PrimaryDates) - Len(chartProps.realTimeData)
PricesKept == Len(PrimaryPrices) - Len(chartProps.realTimeData)
\* The trailing entries the claims give each lookback window.
TrailingEntries(r) == IF r = "1m" THEN 30 ELSE IF r = "3m" THEN 90 ELSE 180

\* C13: for a historical series of L dates and a lookback of 1m, 3m or 6m
\* (N = 30, 90, 180) with L >= N, the historical part of the chart is the
\* trailing N dates in their order and the prices from the same index L - N
\* on (the trailing N prices of a series with a price for each date); the
\* lookback 1y gives all dates and all prices.
C13_LookbackSlice ==
    LET L == Len(HistDates)
        r == chartState.timeRange
        N == TrailingEntries(r)
    IN  /\ r # "1y" /\ L >= N =>
              /\ HistoricalKept = N
              /\ \A i \in 1..N : PrimaryDates[i] = HistDates[L - N + i]
              /\ PricesKept = Len(HistClose) - (L - N)
              /\ \A i \in 1..PricesKept : PrimaryPrices[i] = HistClose[L - N + i]
              /\ Len(HistClose) = L => PricesKept = N
        /\ r = "1y" =>
              /\ HistoricalKept = L
              /\ SubSeq(PrimaryDates, 1, L) = HistDates
              /\ PricesKept = Len(HistClose)
              /\ SubSeq(PrimaryPrices, 1, Len(HistClose)) = HistClose

\* A year of 252 bars under the lookback 1m: the chart starts at bar 223.
C13_Witness ==
    /\ Len(HistDates) = 252
    /\ Len(HistClose) = 252
    /\ chartState.timeRange = "1m"
    /\ HistoricalKept = 30
    /\ PricesKept = 30
    /\ PrimaryDates[1] = HistDates[223]
    /\ PrimaryPrices[1] = ClosePrice(223)

\* C14: when the window of the lookback (30, 90, 180) exceeds the length L
\* of the historical series, the chart has the full series of L entries.
C14_ShortSeriesInFull ==
    LET L == Len(HistDates)
        r == chartState.timeRange
    IN  r # "1y" /\ L < TrailingEntries(r) =>
            /\ HistoricalKept = L
            /\ SubSeq(PrimaryDates, 1, L) = HistDates
            /\ PricesKept = Len(HistClose)
            /\ SubSeq(PrimaryPrices, 1, Len(HistClose)) = HistClose

C17_NoSideEffect ==
    [][/\ chartProps' = chartProps
       /\ chartState' = chartState => chartData' = chartData]_vars

\* The chart was prepared again, predictions hidden, over the whole history
\* with ticks appended: the one case where the output holds more entries than
\* the series it was made from.
C17_Witness ==
    /\ chartState.timeRange = "1y"
    /\ ~chartState.showPredictions
    /\ Len(chartProps.realTimeData) > 0
    /\ Len(HistDates) > 0
    /\ Len(PrimaryDates) = Len(HistDates) + Len(chartProps.realTimeData)
    /\ chartData = PrepareChartData(chartProps.historicalData, chartProps.realTimeData,
                                    chartProps.predictions, chartState.timeRange,
                                    chartState.showPredictions, chartState.selectedModel)

\* The dataset of the chart with the given label, or Null.
Dataset(label) ==
    IF \E i \in 1..Len(chartData.datasets) : chartData.datasets[i].label = label
    THEN chartData.datasets[CHOOSE i \in 1..Len(chartData.datasets) :
                                chartData.datasets[i].label = label]
    ELSE Null

\* The values of a sequence.
Values(seq) == {seq[i] : i \in 1..Len(seq)}

\* C18: when the selected model is in the PredictionMap, the forecast dates,
\* prices, lower and upper bounds of the chart are that model's arrays, on
\* the second axis; when it is not, the chart has no forecast dates and no
\* forecast dataset; the primary prices hold nothing but closing prices of
\* the history and prices of the ticks.
C18_ForecastOverlay ==
    LET m == chartState.selectedModel
        forecasts == chartProps.predictions
    IN  /\ Values(PrimaryPrices) \subseteq
              Values(HistClose) \cup {t.price : t \in Values(chartProps.realTimeData)}
        /\ m \in DOMAIN forecasts =>
              /\ chartData.predictionDates = forecasts[m].dates
              /\ Len(chartData.datasets) = 4
              /\ Dataset(ToUpperCase[m] \o " Prediction").data = forecasts[m].predicted_prices
              /\ Dataset("Confidence Interval").data = forecasts[m].upper_bounds
              /\ Dataset("Lower Bound").data = forecasts[m].lower_bounds
              /\ \A i \in 2..4 : chartData.datasets[i].xAxisID = "x2"
        /\ m \notin DOMAIN forecasts =>
              /\ chartData.predictionDates = <<>>
              /\ Len(chartData.datasets) = 1

StrictlyIncreasing(s) == \A i \in 1..(Len(s) - 1) : s[i] < s[i + 1]

\* C16: in every chart the session can show, the primary dates are strictly
\* increasing and the forecast dates, when there are any, all come after the
\* last primary date.
C16_Chronological ==
    Mounted =>
        \A state \in ChartStates :
            LET chart == SessionChart(state)
                last == chart.labels[Len(chart.labels)]
            IN  /\ StrictlyIncreasing(chart.labels)
                /\ \A i \in 1..Len(chart.predictionDates) : chart.predictionDates[i] > last

\* C19: the first select of a session, with its history of 252 bars fetched,
\* its three providers all answering with 7-day forecasts, no tick received
\* and no feed error, ends Ready with three entries in the PredictionMap, and
\* the chart over the whole year has 252 primary points and 7 forecast points
\* for each model that can be selected.
C19_EndToEnd ==
    /\ CurrentDone /\ generation = 1
    /\ stockData = HistoryOf(calls[1].stock, 1)
    /\ \A m \in Models : DoneResults[m] = "ok"
    /\ accepted = <<>>
    /\ error # ConnectMsg
    => /\ status = "Ready"
       /\ DOMAIN predictions = Models
       /\ Cardinality(DOMAIN predictions) = 3
       /\ Mounted
       /\ DOMAIN SessionProps.predictions = Models
       /\ \A m \in Models :
             LET chart == SessionChart([timeRange |-> "1y", showPredictions |-> TRUE,
                                        selectedModel |-> m])
             IN  /\ Len(chart.labels) = 252
                 /\ Len(chart.datasets[1].data) = 252
                 /\ Len(chart.predictionDates) = 7
                 /\ Len(chart.datasets) = 4
                 /\ \A i \in 2..4 : Len(chart.datasets[i].data) = 7

\* The scenario has run to its end.
C19_Witness ==
    /\ CurrentDone /\ generation = 1
    /\ stockData = HistoryOf(calls[1].stock, 1)
    /\ \A m \in Models : DoneResults[m] = "ok"
    /\ accepted = <<>> /\ feedClock = 0
    /\ status = "Ready"
    /\ Len(SessionChart(InitialChartState).labels) = TradingDays

\* C20: the error text of a failed fetch or of failed predictions is on
\* display only when the call of the current selection has ended in that
\* failure: its history or details request failed, so that it never got to
\* its forecasts, or none of its providers returned a forecast.
C20_ErrorIsOwnAggregateFailure ==
    error \in {FetchMsg, NoPredMsg} =>
        /\ generation >= 1
        /\ calls[generation].pc = "done"
        /\ error = FetchMsg => generation \notin tracked
        /\ error = NoPredMsg => generation \in tracked /\ ApiForecastsOf(generation) = {}

\* C21 as stated: a connect error of the live feed makes the status Error
\* with the feed's error detail, and the next select clears the detail and
\* makes the status Loading.
C21_FeedErrorIsError ==
    /\ lastEvent.kind = "connectError" =>
          /\ error = ConnectMsg
          /\ status = "Error"
    /\ lastEvent.kind = "select" /\ lastEvent.cleared = ConnectMsg =>
          /\ error = NoError
          /\ status = "Loading"

\* C21 amended: a connect error sets the feed's error detail at once; the
\* status is Error at once when no select call is loading, and stays Loading
\* when one is.  The detail, or that of a later failure, then stays until
\* the next select, so that the status is Error from the step on at which
\* the spinner goes, whatever the outcome of the call.  The next select
\* clears the detail and makes the status Loading.
C21_FeedErrorRetryable ==
    /\ [](lastEvent.kind = "connectError" =>
            /\ error = ConnectMsg
            /\ status = IF loading THEN "Loading" ELSE "Error")
    /\ [][/\ lastEvent'.kind = "connectError" => loading' = loading
          /\ error # NoError /\ lastEvent'.kind # "select" => error' # NoError
          /\ error = ConnectMsg /\ loading /\ ~loading' => status' = "Error"
          /\ lastEvent'.kind = "select" =>
                /\ lastEvent'.cleared = error
                /\ error' = NoError
                /\ status' = "Loading"]_vars

\* The feed failed while the first select call was loading, and the call has
\* just ended with a forecast of every provider: the status is Error with the
\* feed's detail.
C21_Witness ==
    /\ generation = 1
    /\ CurrentDone
    /\ \A m \in Models : DoneResults[m] = "ok"
    /\ DOMAIN predictions = Models
    /\ error = ConnectMsg
    /\ status = "Error"

\* C22 as stated: when the historical fetch of the current selection has
\* succeeded, the series is set and the status is Ready at that point.
C22_ReadyAtHistory ==
    lastEvent.kind = "historyOk" /\ lastEvent.gen = generation =>
        /\ stockData = HistoryOf(calls[generation].stock, generation)
        /\ status = "Ready"

\* C22 amended: the success of a historical fetch sets the series and leaves
\* the status as it was, Loading while the call goes on; the status becomes
\* Ready only at the step where the three providers of a select call have all
\* settled with at least one forecast, which is the step that stores them.
C22_ReadyAtForecasts ==
    [][/\ lastEvent'.kind = "historyOk" =>
             /\ stockData' = HistoryOf(calls[lastEvent'.gen].stock, lastEvent'.gen)
             /\ status' = status
             /\ loading' = loading
       /\ status' = "Ready" /\ status # "Ready" =>
             /\ lastEvent'.kind = "predictDone"
             /\ \E m \in Models : lastEvent'.more[m] = "ok"
             /\ predictions' = PredictionsByModel(calls[lastEvent'.gen].stock, lastEvent'.gen,
                                                  lastEvent'.more)]_vars

\* The history of the current selection just arrived and the spinner is
\* still on.
C22_Witness ==
    /\ lastEvent.kind = "historyOk"
    /\ lastEvent.gen = generation
    /\ stockData = HistoryOf(calls[generation].stock, generation)
    /\ status = "Loading"

\* C23 as stated: a tick for the selected stock changes only the buffer; the
\* PredictionMap, the historical series, the status and the error are as
\* before, whatever the message carries.
C23_TickChangesBufferOnly ==
    [][lastEvent'.kind = "tick" =>
          /\ UNCHANGED <<predictions, stockData, error>>
          /\ status' = status]_vars

\* C23 amended: a tick for the selected stock changes the buffer and, when
\* the message carries predictions, the PredictionMap, where each model of
\* the message gets the message's forecast and the other models keep theirs;
\* the historical series, the stock details, the selection, the status and
\* the error are as before.
C23_TickChangesBufferAndForecasts ==
    [][lastEvent'.kind = "tick" =>
          LET carried == lastEvent'.more.predictions
          IN  /\ UNCHANGED <<stockData, stockInfo, selectedStock, error, loading>>
              /\ status' = status
              /\ DOMAIN predictions' = (DOMAIN predictions) \cup (DOMAIN carried)
              /\ \A m \in DOMAIN carried : predictions'[m] = carried[m]
              /\ \A m \in (DOMAIN predictions) \ (DOMAIN carried) :
                    predictions'[m] = predictions[m]]_vars

\* A tick with predictions was just accepted and its forecast took the place
\* of the one a provider had returned.
C23_Witness ==
    /\ lastEvent.kind = "tick"
    /\ lastEvent.more.predictions # EmptyMap
    /\ \A m \in DOMAIN lastEvent.more.predictions : predictions[m].via = "socket"
    /\ \E m \in DOMAIN predictions : predictions[m].via = "api"

\* The forecast requests sent for call g.
ForecastRequestsOf(g) == {r \in RequestsOf(g) : r.kind = "predict"}

\* C24: within one select call each provider is sent at most one forecast
\* request, also after its request failed, so that a select call sends at
\* most three forecast requests.
C24_NoRetry ==
    \A g \in 1..generation :
        /\ \A r \in ForecastRequestsOf(g) :
              /\ CopiesIn(r, requests) = 1
              /\ r.model \in Models
              /\ r.symbol = calls[g].stock.symbol
        /\ Cardinality(ForecastRequestsOf(g)) <= 3
        /\ BagCardinality(requests) <= 6 * generation

\* A select call has ended with a failed provider, and that provider was
\* asked once.
C24_Witness ==
    /\ lastEvent.kind = "predictDone"
    /\ \E m \in Models :
          /\ lastEvent.more[m] = "fail"
          /\ CopiesIn(Request("predict", lastEvent.gen, calls[lastEvent.gen].stock.symbol, m),
                       requests) = 1

\* C25: when every outstanding request settles in the end, a session that is
\* Loading gets to Ready or Error, and the status is not Loading once the call
\* of the latest selection has ended.
C25_LeavesLoading ==
    /\ (status = "Loading") ~> (status \in {"Ready", "Error"})
    /\ [](generation > 0 /\ calls[generation].pc = "done" => status # "Loading")

\* Two calls ran side by side, both have ended, the first with a failure, and
\* the spinner is gone.
C25_Witness ==
    /\ generation = 2
    /\ \A g \in 1..generation : calls[g].pc = "done"
    /\ lastEvent.kind = "historyFail" /\ lastEvent.gen = 1
    /\ status \in {"Ready", "Error"}

\* C26: a tick for the selected stock is put in the buffer when it arrives,
\* also while requests of the selection are outstanding, and it stays there
\* when they complete: at every moment the buffer is the last 100 of the
\* ticks accepted since the select.
C26_TicksNotBlocked ==
    /\ Len(accepted) <= BufferCap => realTimeData = accepted
    /\ Len(accepted) > BufferCap =>
          realTimeData = SubSeq(accepted, Len(accepted) - BufferCap + 1, Len(accepted))
    /\ lastEvent.kind = "tick" =>
          /\ realTimeData # <<>>
          /\ realTimeData[Len(realTimeData)] = lastEvent.more

\* The call of the current selection has just ended, and the tick that came
\* while its requests were outstanding is in the buffer.
C26_Witness ==
    /\ lastEvent.kind = "predictDone"
    /\ lastEvent.gen = generation
    /\ Len(accepted) = 1
    /\ realTimeData = accepted

\* C27: every tick in the buffer has the symbol of the selected stock, and
\* the buffer changes only by a select, which empties it, or by a tick, which
\* is appended, the oldest entry leaving when the buffer is full.
C27_BufferOfSelectedStock ==
    /\ [](\A i \in 1..Len(realTimeData) :
             selectedStock # Null /\ realTimeData[i].symbol = selectedStock.symbol)
    /\ [][realTimeData' # realTimeData =>
             \/ lastEvent'.kind = "select" /\ realTimeData' = <<>>
             \/ /\ lastEvent'.kind = "tick"
                /\ \/ realTimeData' = Append(realTimeData, lastEvent'.more)
                   \/ /\ Len(realTimeData) = BufferCap
                      /\ realTimeData' = Tail(Append(realTimeData, lastEvent'.more))]_vars

\* After a change of stock, a tick of the new stock is the whole buffer.
C27_Witness ==
    /\ generation = 2
    /\ calls[1].stock # calls[2].stock
    /\ feedClock = 1
    /\ Len(realTimeData) = 1
    /\ realTimeData[1].symbol = selectedStock.symbol

\* C28: when the providers of a select call have all settled, each response
\* is classified one way: its forecast is in the PredictionMap under its
\* model, or the model is absent from the map and a warning was logged for it.
C28_StoredOrWarned ==
    lastEvent.kind = "predictDone" =>
        \A m \in Models :
            LET stored == /\ m \in DOMAIN predictions
                          /\ predictions[m] =
                                Forecast(calls[lastEvent.gen].stock.symbol, m, lastEvent.gen, "api")
                warned == m \in Warned(lastEvent.more)
            IN  (stored \/ warned) /\ ~(stored /\ warned)

C30_DatesAgreeWithDatasets ==
    /\ chartData.predictionDates # <<>> =>
          /\ Len(chartData.datasets) = 4
          /\ Dataset("Confidence Interval") # Null
          /\ Dataset("Lower Bound") # Null
    /\ ~chartState.showPredictions => chartData.predictionDates = <<>>
    /\ chartState.selectedModel \notin DOMAIN chartProps.predictions =>
          chartData.predictionDates = <<>>

=============================================================================
